---- MODULE Spec2Model ----
(***************************************************************************)
(* A model of the idle-game engine in src/src/main.rs: the GameState       *)
(* economy (costs, production, clicks, purchases), the save-file codec,    *)
(* and the three activities (production ticker, autosaver, foreground      *)
(* loop) that share one GameState behind a mutex.                          *)
(*                                                                         *)
(* The engine computes costs, click yields and production in f64, so the   *)
(* model carries binary64 values exactly: a non-negative finite f64 is a   *)
(* pair <<m, e>> standing for m * 2^e, m an odd arbitrary-precision        *)
(* natural of at most 53 bits (zero is <<<<>>, 0>>).  Every arithmetic     *)
(* operation is the exact result rounded to nearest, ties to even.         *)
(***************************************************************************)
EXTENDS Integers, Sequences, FiniteSets, TLC

(***************************************************************************)
(* Arbitrary-precision naturals: little-endian limb sequences, base 2^15,  *)
(* no leading zero limb (zero is the empty sequence).                      *)
(***************************************************************************)
LimbBase == 2 ^ 15

RECURSIVE BitLenNat(_)
BitLenNat(x) == IF x = 0 THEN 0 ELSE 1 + BitLenNat(x \div 2)

\* bits per limb
LimbBits == BitLenNat(LimbBase - 1)

RECURSIVE BigNorm(_)
BigNorm(a) ==
    IF a = <<>> THEN <<>>
    ELSE IF a[Len(a)] = 0 THEN BigNorm(SubSeq(a, 1, Len(a) - 1)) ELSE a

RECURSIVE BigFromNat(_)
BigFromNat(n) ==
    IF n = 0 THEN <<>> ELSE <<n % LimbBase>> \o BigFromNat(n \div LimbBase)

RECURSIVE BigToNat(_)
BigToNat(a) ==
    IF a = <<>> THEN 0 ELSE a[1] + LimbBase * BigToNat(Tail(a))

BigRest(a) == IF a = <<>> THEN <<>> ELSE Tail(a)
BigLow(a)  == IF a = <<>> THEN 0 ELSE a[1]

RECURSIVE BigAddC(_, _, _)
BigAddC(a, b, c) ==
    IF a = <<>> /\ b = <<>> THEN (IF c = 0 THEN <<>> ELSE <<c>>)
    ELSE LET s == BigLow(a) + BigLow(b) + c
         IN  <<s % LimbBase>> \o BigAddC(BigRest(a), BigRest(b), s \div LimbBase)

BigAdd(a, b) == BigAddC(a, b, 0)

\* a - b - br for a >= b + br
RECURSIVE BigSubB(_, _, _)
BigSubB(a, b, br) ==
    IF a = <<>> THEN <<>>
    ELSE LET d == BigLow(a) - BigLow(b) - br
         IN  IF d < 0
             THEN <<d + LimbBase>> \o BigSubB(BigRest(a), BigRest(b), 1)
             ELSE <<d>> \o BigSubB(BigRest(a), BigRest(b), 0)

BigSub(a, b) == BigNorm(BigSubB(a, b, 0))

\* a * k + c for a limb-sized k
RECURSIVE BigMulSmall(_, _, _)
BigMulSmall(a, k, c) ==
    IF a = <<>> THEN (IF c = 0 THEN <<>> ELSE <<c>>)
    ELSE LET p == a[1] * k + c
         IN  <<p % LimbBase>> \o BigMulSmall(Tail(a), k, p \div LimbBase)

RECURSIVE BigMul(_, _)
BigMul(a, b) ==
    IF a = <<>> \/ b = <<>> THEN <<>>
    ELSE BigNorm(BigAdd(BigMulSmall(a, b[1], 0), <<0>> \o BigMul(a, Tail(b))))

\* -1, 0, 1 as a < b, a = b, a > b
RECURSIVE BigCmp(_, _)
BigCmp(a, b) ==
    IF Len(a) # Len(b) THEN (IF Len(a) < Len(b) THEN -1 ELSE 1)
    ELSE IF a = <<>> THEN 0
    ELSE IF a[Len(a)] # b[Len(b)] THEN (IF a[Len(a)] < b[Len(b)] THEN -1 ELSE 1)
    ELSE BigCmp(BigNorm(SubSeq(a, 1, Len(a) - 1)), BigNorm(SubSeq(b, 1, Len(b) - 1)))

BigBitLen(a) ==
    IF a = <<>> THEN 0 ELSE LimbBits * (Len(a) - 1) + BitLenNat(a[Len(a)])

BigShl(a, s) ==
    IF a = <<>> THEN <<>>
    ELSE [i \in 1..(s \div LimbBits) |-> 0] \o BigMulSmall(a, 2 ^ (s % LimbBits), 0)

BigShr(a, s) ==
    LET q == s \div LimbBits
        r == s % LimbBits
        n == Len(a) - q
        limb(i) == IF i <= Len(a) THEN a[i] ELSE 0
    IN  IF n <= 0 THEN <<>>
        ELSE BigNorm([i \in 1..n |->
                 (limb(i + q) \div (2 ^ r))
                 + (limb(i + q + 1) % (2 ^ r)) * (2 ^ (LimbBits - r))])

BigLowBits(a, s) == BigSub(a, BigShl(BigShr(a, s), s))

BigOdd(a) == a # <<>> /\ a[1] % 2 = 1

RECURSIVE BigTrailingZeros(_)
BigTrailingZeros(a) ==
    IF a = <<>> THEN 0
    ELSE IF a[1] = 0 THEN LimbBits + BigTrailingZeros(Tail(a))
    ELSE IF a[1] % 2 = 0 THEN 1 + BigTrailingZeros(<<a[1] \div 2>>)
    ELSE 0

\* <<quotient, remainder>> of a by a limb-sized k, most significant limb first
RECURSIVE BigDivSmallR(_, _, _)
BigDivSmallR(a, k, r) ==
    IF a = <<>> THEN <<<<>>, r>>
    ELSE LET n   == Len(a)
             cur == r * LimbBase + a[n]
             low == BigDivSmallR(SubSeq(a, 1, n - 1), k, cur % k)
         IN  <<low[1] \o <<cur \div k>>, low[2]>>

BigDivSmall(a, k) ==
    LET qr == BigDivSmallR(a, k, 0) IN <<BigNorm(qr[1]), qr[2]>>

(***************************************************************************)
(* binary64                                                                *)
(***************************************************************************)
\* significand width of f64
MantissaBits == 53
F64Zero == <<<<>>, 0>>

F64Norm(m, e) ==
    IF m = <<>> THEN F64Zero
    ELSE LET tz == BigTrailingZeros(m) IN <<BigShr(m, tz), e + tz>>

\* m * 2^e rounded to the nearest binary64, ties to even
F64Round(m, e) ==
    LET len == BigBitLen(m)
    IN  IF len <= MantissaBits THEN F64Norm(m, e)
        ELSE LET s    == len - MantissaBits
                 q    == BigShr(m, s)
                 rem  == BigLowBits(m, s)
                 half == BigShl(<<1>>, s - 1)
                 c    == BigCmp(rem, half)
                 up   == c = 1 \/ (c = 0 /\ BigOdd(q))
             IN  F64Norm(IF up THEN BigAdd(q, <<1>>) ELSE q, e + s)

F64FromNat(n) == F64Norm(BigFromNat(n), 0)

\* the binary64 nearest to p / q (a decimal literal such as 0.1 = 1/10)
F64FromRatio(p, q) ==
    LET sh == 6 * LimbBits
        qr == BigDivSmall(BigShl(BigFromNat(p), sh), q)
        m  == BigAdd(BigShl(qr[1], 1), IF qr[2] = 0 THEN <<>> ELSE <<1>>)
    IN  F64Round(m, 0 - sh - 1)

F64Add(x, y) ==
    IF x[1] = <<>> THEN y
    ELSE IF y[1] = <<>> THEN x
    ELSE LET e == IF x[2] < y[2] THEN x[2] ELSE y[2]
         IN  F64Round(BigAdd(BigShl(x[1], x[2] - e), BigShl(y[1], y[2] - e)), e)

\* x - y for x >= y
F64Sub(x, y) ==
    IF y[1] = <<>> THEN x
    ELSE LET e == IF x[2] < y[2] THEN x[2] ELSE y[2]
         IN  F64Round(BigSub(BigShl(x[1], x[2] - e), BigShl(y[1], y[2] - e)), e)

F64Mul(x, y) == F64Round(BigMul(x[1], y[1]), x[2] + y[2])

F64Cmp(x, y) ==
    IF x[1] = <<>> /\ y[1] = <<>> THEN 0
    ELSE IF x[1] = <<>> THEN -1
    ELSE IF y[1] = <<>> THEN 1
    ELSE LET e == IF x[2] < y[2] THEN x[2] ELSE y[2]
         IN  BigCmp(BigShl(x[1], x[2] - e), BigShl(y[1], y[2] - e))

\* f64::floor as a bignum
F64FloorBig(x) ==
    IF x[2] >= 0 THEN BigShl(x[1], x[2]) ELSE BigShr(x[1], 0 - x[2])

\* f64::floor() as u64 (the values of the model stay far below 2^64)
F64FloorNat(x) == BigToNat(F64FloorBig(x))

RECURSIVE BigPow(_, _)
BigPow(a, n) == IF n = 0 THEN <<1>> ELSE BigMul(BigPow(a, n - 1), a)

\* f64::powf with an integral exponent: the exact power, rounded once
F64Powf(x, n) == F64Round(BigPow(x[1], n), x[2] * n)

(***************************************************************************)
(* The catalog built by GameState::new                                     *)
(***************************************************************************)
Keys == {"cursor", "grandma", "farm", "mine", "temple", "portal"}

Building(base_cost, base_production, cost_multiplier) ==
    [base_cost |-> base_cost, base_production |-> base_production,
     cost_multiplier |-> cost_multiplier]

Buildings ==
    [k \in Keys |->
        CASE k = "cursor"  -> Building(15, F64FromRatio(1, 10), F64FromRatio(115, 100))
          [] k = "grandma" -> Building(100, F64FromNat(1), F64FromRatio(115, 100))
          [] k = "farm"    -> Building(1100, F64FromNat(8), F64FromRatio(115, 100))
          [] k = "mine"    -> Building(12000, F64FromNat(47), F64FromRatio(115, 100))
          [] k = "temple"  -> Building(130000, F64FromNat(260), F64FromRatio(115, 100))
          [] k = "portal"  -> Building(1400000, F64FromNat(1400), F64FromRatio(115, 100))]

\* Option: None is the empty sequence, Some(x) is <<x>>
None == <<>>
Some(x) == <<x>>

Upgrade(cost, building_multiplier, click_multiplier) ==
    [cost |-> cost, building_multiplier |-> building_multiplier,
     click_multiplier |-> click_multiplier]

\* upgrades[i] of the code is Upgrades[i + 1]
Upgrades ==
    << Upgrade(100,      Some(<<"cursor", F64FromNat(2)>>),  None),
       Upgrade(500,      None,                               Some(F64FromNat(2))),
       Upgrade(1000,     Some(<<"grandma", F64FromNat(2)>>), None),
       Upgrade(11000,    Some(<<"farm", F64FromNat(2)>>),    None),
       Upgrade(120000,   Some(<<"mine", F64FromNat(2)>>),    None),
       Upgrade(1300000,  Some(<<"temple", F64FromNat(2)>>),  None),
       Upgrade(10000000, Some(<<"all", F64FromNat(2)>>),     Some(F64FromNat(5))) >>

NumUpgrades == Len(Upgrades)

Menus == {"Main", "Buildings", "Upgrades"}

\* GameState::new
NewGameState ==
    [points |-> 0, lifetime_points |-> 0, click_power |-> 1,
     buildings |-> [k \in Keys |-> 0],
     upgrades |-> [i \in 1..NumUpgrades |-> FALSE],
     current_menu |-> "Main", selected_index |-> 0,
     production_remainder |-> F64Zero]

(***************************************************************************)
(* Economy                                                                 *)
(***************************************************************************)
\* Building::current_cost for the building `key` owned `count` times
current_cost(key, count) ==
    IF count = 0 THEN Buildings[key].base_cost
    ELSE F64FloorNat(F64Mul(F64FromNat(Buildings[key].base_cost),
                            F64Powf(Buildings[key].cost_multiplier, count)))

\* Building::total_production
total_production(key, count) ==
    F64Mul(Buildings[key].base_production, F64FromNat(count))

\* the product of the factors of the purchased upgrades i..NumUpgrades that
\* target `key`, folded onto acc in catalog order
RECURSIVE BuildingMultiplier(_, _, _, _)
BuildingMultiplier(state, key, i, acc) ==
    IF i > NumUpgrades THEN acc
    ELSE LET bm == Upgrades[i].building_multiplier
         IN  BuildingMultiplier(state, key, i + 1,
                 IF state.upgrades[i] /\ bm # None /\ bm[1][1] = key
                 THEN F64Mul(acc, bm[1][2]) ELSE acc)

\* GameState::calculate_production_per_second; `order` is the iteration
\* order of the buildings HashMap
RECURSIVE ProductionSum(_, _, _, _)
ProductionSum(state, order, all_mult, total) ==
    IF order = <<>> THEN total
    ELSE LET key        == Head(order)
             multiplier == BuildingMultiplier(state, key, 1, all_mult)
         IN  ProductionSum(state, Tail(order), all_mult,
                 F64Add(total,
                        F64Mul(total_production(key, state.buildings[key]), multiplier)))

calculate_production_per_second(state, order) ==
    ProductionSum(state, order,
                  BuildingMultiplier(state, "all", 1, F64FromNat(1)), F64Zero)

RECURSIVE ClickMultiplier(_, _, _)
ClickMultiplier(state, i, acc) ==
    IF i > NumUpgrades THEN acc
    ELSE ClickMultiplier(state, i + 1,
             IF state.upgrades[i] /\ Upgrades[i].click_multiplier # None
             THEN F64Mul(acc, Upgrades[i].click_multiplier[1]) ELSE acc)

\* the band of the match in check_click_power_upgrade
ClickPowerBand(lifetime_points) ==
    IF lifetime_points <= 999 THEN 1
    ELSE IF lifetime_points <= 9999 THEN 2
    ELSE IF lifetime_points <= 99999 THEN 5
    ELSE IF lifetime_points <= 999999 THEN 10
    ELSE IF lifetime_points <= 9999999 THEN 25
    ELSE IF lifetime_points <= 99999999 THEN 50
    ELSE 100

\* a check that assigns the band's power whatever the current one
check_click_power_assign(state) ==
    [state EXCEPT !.click_power = ClickPowerBand(state.lifetime_points)]

\* get_domination_status
get_domination_status(lifetime_points) ==
    IF lifetime_points <= 999 THEN "Local Cult (Town)"
    ELSE IF lifetime_points <= 9999 THEN "Regional Influence (County)"
    ELSE IF lifetime_points <= 99999 THEN "National Presence (Country)"
    ELSE IF lifetime_points <= 999999 THEN "Continental Power (Continent)"
    ELSE IF lifetime_points <= 9999999 THEN "Global Reach (Earth)"
    ELSE IF lifetime_points <= 99999999 THEN "Cosmic Influence (Solar System)"
    ELSE IF lifetime_points <= 999999999 THEN "Galactic Dominion (Galaxy)"
    ELSE "Universal Awakening (Cthulhu Rises!)"

\* GameState::check_click_power_upgrade
check_click_power_upgrade(state) ==
    LET new_click_power == ClickPowerBand(state.lifetime_points)
    IN  IF new_click_power > state.click_power
        THEN [state EXCEPT !.click_power = new_click_power]
        ELSE state

\* the points one click adds
click_points(state) ==
    F64FloorNat(F64Mul(F64FromNat(state.click_power),
                       ClickMultiplier(state, 1, F64FromNat(1))))

\* GameState::click
click(state) ==
    LET points_to_add == click_points(state)
    IN  check_click_power_upgrade(
            [state EXCEPT !.points = @ + points_to_add,
                          !.lifetime_points = @ + points_to_add])

\* buy_building with the cost read after Building::buy has raised the count
buy_building_cost_after(state, key) ==
    IF key \in Keys /\ state.points >= current_cost(key, state.buildings[key])
    THEN << [state EXCEPT !.points = @ - current_cost(key, state.buildings[key] + 1),
                          !.buildings[key] = @ + 1], TRUE >>
    ELSE << state, FALSE >>



\* GameState::buy_building: <<state after, return value>>
buy_building(state, key) ==
    IF key \in Keys /\ state.points >= current_cost(key, state.buildings[key])
    THEN << [state EXCEPT !.points = @ - current_cost(key, state.buildings[key]),
                          !.buildings[key] = @ + 1], TRUE >>
    ELSE << state, FALSE >>

\* buy_upgrade without the test of the purchased flag
buy_upgrade_rebuy(state, index) ==
    IF index < NumUpgrades /\ state.points >= Upgrades[index + 1].cost
    THEN << [state EXCEPT !.points = @ - Upgrades[index + 1].cost,
                          !.upgrades[index + 1] = TRUE], TRUE >>
    ELSE << state, FALSE >>

\* GameState::buy_upgrade: <<state after, return value>>
buy_upgrade(state, index) ==
    IF index < NumUpgrades
       /\ ~state.upgrades[index + 1]
       /\ state.points >= Upgrades[index + 1].cost
    THEN << [state EXCEPT !.points = @ - Upgrades[index + 1].cost,
                          !.upgrades[index + 1] = TRUE], TRUE >>
    ELSE << state, FALSE >>

\* the body of the tick thread's loop under the game-state lock
\* u64::MAX, as a wide integer
U64Max == BigSub(BigShl(<<1>>, 64), <<1>>)

\* a non-negative f64 `as u64`, as a wide integer: the integral part,
\* saturated at u64::MAX
F64ToU64(x) ==
    LET whole == F64FloorBig(x)
    IN  IF BigCmp(whole, U64Max) = 1 THEN U64Max ELSE whole

\* lines 425-435 on the f64 values alone: the remainder the tick leaves and
\* its points_to_add (a wide integer)
accrual(production_remainder, rate, elapsed) ==
    LET production    == F64Mul(rate, elapsed)
        remainder     == F64Add(production_remainder, production)
        points_to_add == F64ToU64(remainder)
    IN  IF points_to_add # <<>>
        THEN [remainder |-> F64Sub(remainder, F64Round(points_to_add, 0)),
              points_to_add |-> points_to_add]
        ELSE [remainder |-> remainder, points_to_add |-> <<>>]

production_tick(state, order, elapsed) ==
    LET production    == F64Mul(calculate_production_per_second(state, order), elapsed)
        remainder     == F64Add(state.production_remainder, production)
        points_to_add == F64FloorNat(remainder)
    IN  IF points_to_add > 0
        THEN [state EXCEPT !.production_remainder =
                               F64Sub(remainder, F64FromNat(points_to_add)),
                           !.points = @ + points_to_add,
                           !.lifetime_points = @ + points_to_add]
        ELSE [state EXCEPT !.production_remainder = remainder]

(***************************************************************************)
(* Save-file text.  A string is a sequence of one-character strings; a     *)
(* file is [exists, lines] with lines the sequence of its lines (what      *)
(* writeln! appends and str::lines yields: no field written or matched     *)
(* holds a line break).                                                    *)
(***************************************************************************)
\* the literal texts of the save format and of the catalog keys
POINTS_TAG == <<"p", "o", "i", "n", "t", "s">>
LIFETIME_TAG == <<"l", "i", "f", "e", "t", "i", "m", "e">>
CLICK_POWER_TAG == <<"c", "l", "i", "c", "k", "_", "p", "o", "w", "e", "r">>
BUILDING_TAG == <<"b", "u", "i", "l", "d", "i", "n", "g">>
UPGRADE_TAG == <<"u", "p", "g", "r", "a", "d", "e">>
TRUE_TXT == <<"t", "r", "u", "e">>
FALSE_TXT == <<"f", "a", "l", "s", "e">>
CURSOR_TXT == <<"c", "u", "r", "s", "o", "r">>
GRANDMA_TXT == <<"g", "r", "a", "n", "d", "m", "a">>
FARM_TXT == <<"f", "a", "r", "m">>
MINE_TXT == <<"m", "i", "n", "e">>
TEMPLE_TXT == <<"t", "e", "m", "p", "l", "e">>
PORTAL_TXT == <<"p", "o", "r", "t", "a", "l">>

DigitChars == <<"0", "1", "2", "3", "4", "5", "6", "7", "8", "9">>
IsDigit(c) == \E d \in 1..10 : DigitChars[d] = c
DigitVal(c) == (CHOOSE d \in 1..10 : DigitChars[d] = c) - 1

\* Display for u64
RECURSIVE fmt_u64(_)
fmt_u64(n) ==
    IF n < 10 THEN <<DigitChars[n + 1]>>
    ELSE fmt_u64(n \div 10) \o <<DigitChars[(n % 10) + 1]>>

\* a bool written as 1 or 0
fmt_bool_numeric(b) == IF b THEN <<"1">> ELSE <<"0">>

\* Display for bool
fmt_bool(b) == IF b THEN TRUE_TXT ELSE FALSE_TXT

\* Display for f64: the integer digits of an integral value, otherwise the
\* shortest decimal d / 10^k that reads back as the same f64 (k up to 4)
fmt_f64(x) ==
    LET whole == F64FloorNat(x)
        fits(k) == \E d \in 1..(10 ^ k - 1) :
                      F64FromRatio(whole * 10 ^ k + d, 10 ^ k) = x
        k0 == CHOOSE k \in 1..4 : fits(k) /\ \A j \in 1..(k - 1) : ~fits(j)
        d0 == CHOOSE d \in 1..(10 ^ k0 - 1) :
                  F64FromRatio(whole * 10 ^ k0 + d, 10 ^ k0) = x
        frac == fmt_u64(d0)
    IN  IF F64FromNat(whole) = x THEN fmt_u64(whole)
        ELSE fmt_u64(whole) \o <<".">>
             \o [i \in 1..(k0 - Len(frac)) |-> "0"] \o frac

AllDigits(s) == s # <<>> /\ \A i \in 1..Len(s) : IsDigit(s[i])

RECURSIVE DigitsValue(_)
DigitsValue(s) ==
    IF s = <<>> THEN 0
    ELSE 10 * DigitsValue(SubSeq(s, 1, Len(s) - 1)) + DigitVal(s[Len(s)])

\* str::parse::<u64> and ::<usize>: an optional '+', then one or more
\* digits (the texts of the model stay below the overflow of u64)
parse_u64(s) ==
    LET body == IF s # <<>> /\ s[1] = "+" THEN Tail(s) ELSE s
    IN  IF AllDigits(body) THEN Some(DigitsValue(body)) ELSE None

\* str::parse::<bool>
parse_bool(s) ==
    IF s = TRUE_TXT THEN Some(TRUE)
    ELSE IF s = FALSE_TXT THEN Some(FALSE)
    ELSE None

\* whether str::parse::<f64> returns Ok: an optional sign, then digits with
\* at most one '.', at least one digit, and an optional exponent
parse_f64_ok(s) ==
    LET unsigned == IF s # <<>> /\ s[1] \in {"+", "-"} THEN Tail(s) ELSE s
        epos     == {i \in 1..Len(unsigned) : unsigned[i] \in {"e", "E"}}
        cut      == IF epos = {} THEN Len(unsigned) + 1
                    ELSE CHOOSE i \in epos : \A j \in epos : i <= j
        mant     == SubSeq(unsigned, 1, cut - 1)
        expo     == SubSeq(unsigned, cut + 1, Len(unsigned))
        expbody  == IF expo # <<>> /\ expo[1] \in {"+", "-"} THEN Tail(expo) ELSE expo
        dots     == {i \in 1..Len(mant) : mant[i] = "."}
    IN  /\ Cardinality(dots) <= 1
        /\ \A i \in 1..Len(mant) : IsDigit(mant[i]) \/ mant[i] = "."
        /\ \E i \in 1..Len(mant) : IsDigit(mant[i])
        /\ (epos # {} => AllDigits(expbody))

\* str::split(sep) collected into a Vec
RECURSIVE Split(_, _)
Split(s, sep) ==
    LET hits == {i \in 1..Len(s) : s[i] = sep}
    IN  IF hits = {} THEN <<s>>
        ELSE LET i == CHOOSE h \in hits : \A j \in hits : h <= j
             IN  <<SubSeq(s, 1, i - 1)>> \o Split(SubSeq(s, i + 1, Len(s)), sep)

\* the text of each building key
KeyText ==
    [k \in Keys |->
        CASE k = "cursor"  -> CURSOR_TXT
          [] k = "grandma" -> GRANDMA_TXT
          [] k = "farm"    -> FARM_TXT
          [] k = "mine"    -> MINE_TXT
          [] k = "temple"  -> TEMPLE_TXT
          [] k = "portal"  -> PORTAL_TXT]

NoFile == [exists |-> FALSE, lines |-> <<>>]
FileOf(lines) == [exists |-> TRUE, lines |-> lines]

RECURSIVE BuildingLines(_, _)
BuildingLines(state, order) ==
    IF order = <<>> THEN <<>>
    ELSE << BUILDING_TAG \o <<":">> \o KeyText[Head(order)] \o <<":">>
            \o fmt_u64(state.buildings[Head(order)]) \o <<":">>
            \o fmt_f64(Buildings[Head(order)].base_production) >>
         \o BuildingLines(state, Tail(order))

\* the lines GameState::save_game writes, in order
SaveLines(state, order) ==
    << POINTS_TAG \o <<":">> \o fmt_u64(state.points),
       LIFETIME_TAG \o <<":">> \o fmt_u64(state.lifetime_points),
       CLICK_POWER_TAG \o <<":">> \o fmt_u64(state.click_power) >>
    \o BuildingLines(state, order)
    \o [i \in 1..NumUpgrades |->
          UPGRADE_TAG \o <<":">> \o fmt_u64(i - 1) \o <<":">>
          \o fmt_bool(state.upgrades[i])]

\* GameState::save_game on `file`.  written = -1: create_dir or File::create
\* fails and the file is untouched; otherwise File::create truncates the
\* file and `written` lines reach it before a writeln! fails (all of them:
\* the save returns Ok).
save_game(state, order, file, written) ==
    IF written < 0 THEN file
    ELSE FileOf(SubSeq(SaveLines(state, order), 1, written))

SaveLineCount == 3 + Cardinality(Keys) + NumUpgrades

\* save_game in two steps of the caller: lines 310-312 write the fields of
\* the state as it was when the save began, lines 315-322 the buildings and
\* upgrades of the state as it is when the save ends
save_game_steps(begun, state, order, file, written) ==
    save_game([state EXCEPT !.points = begun.points,
                            !.lifetime_points = begun.lifetime_points,
                            !.click_power = begun.click_power],
              order, file, written)

\* one iteration of the `for line in contents.lines()` loop of load_game
load_line(state, line) ==
    LET parts == Split(line, ":")
    IN  IF Len(parts) < 2 THEN state
        ELSE IF parts[1] = POINTS_TAG THEN
            (IF parse_u64(parts[2]) # None
             THEN [state EXCEPT !.points = parse_u64(parts[2])[1]] ELSE state)
        ELSE IF parts[1] = LIFETIME_TAG THEN
            (IF parse_u64(parts[2]) # None
             THEN [state EXCEPT !.lifetime_points = parse_u64(parts[2])[1]] ELSE state)
        ELSE IF parts[1] = CLICK_POWER_TAG THEN
            (IF parse_u64(parts[2]) # None
             THEN [state EXCEPT !.click_power = parse_u64(parts[2])[1]] ELSE state)
        ELSE IF parts[1] = BUILDING_TAG THEN
            (IF Len(parts) >= 4
                /\ parse_u64(parts[3]) # None /\ parse_f64_ok(parts[4])
                /\ \E k \in Keys : KeyText[k] = parts[2]
             THEN [state EXCEPT
                      !.buildings[CHOOSE k \in Keys : KeyText[k] = parts[2]] =
                          parse_u64(parts[3])[1]]
             ELSE state)
        ELSE IF parts[1] = UPGRADE_TAG THEN
            (IF Len(parts) >= 3
                /\ parse_u64(parts[2]) # None /\ parse_bool(parts[3]) # None
                /\ parse_u64(parts[2])[1] < NumUpgrades
             THEN [state EXCEPT !.upgrades[parse_u64(parts[2])[1] + 1] =
                                    parse_bool(parts[3])[1]]
             ELSE state)
        ELSE state

RECURSIVE load_lines(_, _)
load_lines(state, lines) ==
    IF lines = <<>> THEN state
    ELSE load_lines(load_line(state, Head(lines)), Tail(lines))

\* a load that gives up on a file with a line of fewer than two fields
load_game_strict(state, file) ==
    IF ~file.exists \/ \E i \in 1..Len(file.lines) : Len(Split(file.lines[i], ":")) < 2
    THEN state
    ELSE check_click_power_upgrade(
             load_lines([state EXCEPT !.production_remainder = F64Zero],
                        file.lines))

\* GameState::load_game: a missing file returns Ok at once; otherwise the
\* remainder is reset, every line applied, and click power rechecked
load_game(state, file) ==
    IF ~file.exists THEN state
    ELSE check_click_power_upgrade(
             load_lines([state EXCEPT !.production_remainder = F64Zero],
                        file.lines))

(***************************************************************************)
(* The key handler of the foreground loop (the match on key_event.code)    *)
(***************************************************************************)
\* building_entries.sort_by(|a, b| a.1.cmp(&b.1)): a stable sort of the keys,
\* taken in HashMap order, by current cost
RECURSIVE InsertByCost(_, _, _)
InsertByCost(state, sorted, key) ==
    IF sorted = <<>> THEN <<key>>
    ELSE IF current_cost(key, state.buildings[key])
            < current_cost(Head(sorted), state.buildings[Head(sorted)])
         THEN <<key>> \o sorted
         ELSE <<Head(sorted)>> \o InsertByCost(state, Tail(sorted), key)

RECURSIVE SortedByCost(_, _)
SortedByCost(state, order) ==
    IF order = <<>> THEN <<>>
    ELSE InsertByCost(state,
                      SortedByCost(state, SubSeq(order, 1, Len(order) - 1)),
                      order[Len(order)])

KeyEvents == {".", "1", "2", "3", "Up", "Down", "Enter", "other"}

\* the arms of the match that only touch the GameState
handle_key(state, order, key) ==
    CASE key = "." -> click(state)
      [] key = "1" -> [state EXCEPT !.current_menu = "Main", !.selected_index = 0]
      [] key = "2" -> [state EXCEPT !.current_menu = "Buildings", !.selected_index = 0]
      [] key = "3" -> [state EXCEPT !.current_menu = "Upgrades", !.selected_index = 0]
      [] key = "Up" ->
            IF state.selected_index > 0
            THEN [state EXCEPT !.selected_index = @ - 1] ELSE state
      [] key = "Down" ->
            IF state.current_menu = "Buildings"
               /\ state.selected_index < Cardinality(Keys) - 1
            THEN [state EXCEPT !.selected_index = @ + 1]
            ELSE IF state.current_menu = "Upgrades"
                    /\ state.selected_index < NumUpgrades - 1
            THEN [state EXCEPT !.selected_index = @ + 1]
            ELSE state
      [] key = "Enter" ->
            IF state.current_menu = "Buildings"
            THEN (IF state.selected_index < Len(SortedByCost(state, order))
                  THEN buy_building(state,
                           SortedByCost(state, order)[state.selected_index + 1])[1]
                  ELSE state)
            ELSE IF state.current_menu = "Upgrades"
            THEN buy_upgrade(state, state.selected_index)[1]
            ELSE state
      [] OTHER -> state

(***************************************************************************)
(* State                                                                   *)
(***************************************************************************)
VARIABLES
    gs,       \* the GameState behind Arc<Mutex<GameState>>
    order,    \* the iteration order of gs.buildings (fixed for a process)
    file,     \* saves/game.save
    running,  \* the flag behind Arc<Mutex<bool>>
    lock,     \* the holder of the game-state mutex, or "none"
    rlock,    \* the holder of the running mutex, or "none"
    pc,       \* where each activity stands
    pending,  \* per activity: the GameState its command computed under the lock
    input,    \* per activity: the input of its current step (key, elapsed time)
    last,     \* the last completed operation and its result
    cnt       \* step counters and the history counters the properties read

vars == <<gs, order, file, running, lock, rlock, pc, pending, input, last, cnt>>

Threads == {"main", "tick", "save"}

\* bounds of the model
MaxOps == 2
MaxSessions == 2
MaxSplit == 6
MaxKeys == 2
MaxTicks == 1
MaxSaves == 1
MaxCursors == 2
MaxLines == 3

MaxClicks == 16

MaxDigits == 18

\* the elapsed times a tick may measure: 0.1 s and 1 s
ElapsedChoices == {F64FromRatio(1, 10), F64FromNat(1)}

\* the iteration orders of the buildings HashMap the model tries
IterOrders ==
    { <<"cursor", "grandma", "farm", "mine", "temple", "portal">>,
      <<"portal", "farm", "grandma", "temple", "cursor", "mine">> }

\* a state of an earlier session: 100 clicks, the first Elder One bought
\* for 100, then 899 points of production
VeteranState ==
    [NewGameState EXCEPT !.points = 899, !.lifetime_points = 999,
                         !.buildings["grandma"] = 1]

\* the save files a process may find at startup: none, or a complete save
\* of an earlier session
InitFiles ==
    { NoFile,
      save_game(VeteranState,
                <<"cursor", "grandma", "farm", "mine", "temple", "portal">>,
                NoFile, SaveLineCount) }

NoInput == [key |-> "none", elapsed |-> F64Zero, seen |-> NewGameState]
NoLast  == [op |-> "new", arg |-> "none", ret |-> TRUE]
ZeroCnt ==
    [ops |-> 0, sessions |-> 1, ticks |-> 0, tick_added |-> 0,
     elapsed_total |-> F64Zero,
     keys |-> 0, saves |-> 0, base_points |-> 0, sum_deltas |-> 0,
     quit |-> FALSE, final_saves |-> 0,
     ticks_after_stop |-> 0, saves_after_stop |-> 0]

(***************************************************************************)
(* SpecSeq: one caller drives the engine's commands one at a time, over    *)
(* several runs of the process that share the save file.                   *)
(***************************************************************************)
\* the first process finds no save file, the save of an earlier session, or
\* a file edited by hand: lifetime:1000 with click_power:0, or click_power:5
InitSeq ==
    /\ gs = NewGameState
    /\ order \in IterOrders
    /\ file \in InitFiles
                \cup { FileOf(<< LIFETIME_TAG \o <<":", "1", "0", "0", "0">>,
                                 CLICK_POWER_TAG \o <<":", "0">> >>),
                       FileOf(<< CLICK_POWER_TAG \o <<":", "5">> >>) }
    /\ running = TRUE
    /\ lock = "none"
    /\ rlock = "none"
    /\ pc = [t \in Threads |-> IF t = "main" THEN "load" ELSE "unborn"]
    /\ pending = [t \in Threads |-> NewGameState]
    /\ input = [t \in Threads |-> NoInput]
    /\ last = NoLast
    /\ cnt = ZeroCnt

SeqFrame == UNCHANGED <<running, lock, rlock, pending, input>>

Step(op, arg, ret) ==
    /\ last' = [op |-> op, arg |-> arg, ret |-> ret]
    /\ cnt' = [cnt EXCEPT !.ops = @ + 1]

CanStep == pc["main"] = "api" /\ cnt.ops < MaxOps

\* main, lines 403-406: the startup load
SeqLoad ==
    /\ pc["main"] = "load"
    /\ gs' = load_game(gs, file)
    /\ pc' = [pc EXCEPT !["main"] = "api"]
    /\ last' = [op |-> "load", arg |-> "none", ret |-> TRUE]
    /\ UNCHANGED <<order, file, cnt>>
    /\ SeqFrame

SeqClick ==
    /\ CanStep
    /\ gs' = click(gs)
    /\ Step("click", "none", TRUE)
    /\ UNCHANGED <<order, file, pc>>
    /\ SeqFrame

SeqTick ==
    /\ CanStep
    /\ \E elapsed \in ElapsedChoices :
          gs' = production_tick(gs, order, elapsed)
    /\ Step("tick", "none", TRUE)
    /\ UNCHANGED <<order, file, pc>>
    /\ SeqFrame

SeqBuyBuilding ==
    /\ CanStep
    /\ \E key \in Keys \cup {"unknown"} :
          /\ gs' = buy_building(gs, key)[1]
          /\ Step("buy_building", key, buy_building(gs, key)[2])
    /\ UNCHANGED <<order, file, pc>>
    /\ SeqFrame

SeqBuyUpgrade ==
    /\ CanStep
    /\ \E index \in 0..NumUpgrades :
          /\ gs' = buy_upgrade(gs, index)[1]
          /\ Step("buy_upgrade", index, buy_upgrade(gs, index)[2])
    /\ UNCHANGED <<order, file, pc>>
    /\ SeqFrame

\* where a save of SpecSeq may end: File::create fails, or an error comes
\* after 0, 1, 2 or 3 lines, among the building lines, among the upgrade
\* lines, or not at all
SaveCuts ==
    {0 - 1, 0, 1, 2, 3, 3 + Cardinality(Keys) \div 2,
     3 + Cardinality(Keys) + NumUpgrades \div 2, SaveLineCount}

SeqSave ==
    /\ CanStep
    /\ \E written \in SaveCuts :
          /\ file' = save_game(gs, order, file, written)
          /\ Step("save", written, written = SaveLineCount)
    /\ UNCHANGED <<gs, order, pc>>
    /\ SeqFrame

\* the process ends and is started again: a fresh GameState, a fresh
\* HashMap, the same save file
SeqRestart ==
    /\ pc["main"] = "api"
    /\ cnt.sessions < MaxSessions
    /\ gs' = NewGameState
    /\ order' \in IterOrders
    /\ pc' = [pc EXCEPT !["main"] = "load"]
    /\ last' = NoLast
    /\ cnt' = [cnt EXCEPT !.sessions = @ + 1]
    /\ UNCHANGED file
    /\ SeqFrame

NextSeq ==
    \/ SeqLoad
    \/ SeqClick
    \/ SeqTick
    \/ SeqBuyBuilding
    \/ SeqBuyUpgrade
    \/ SeqSave
    \/ SeqRestart

SpecSeq == InitSeq /\ [][NextSeq]_vars

(***************************************************************************)
(* SpecTick: the tick thread's accrual alone, at a constant production     *)
(* rate, from a state with some Cultists owned and no remainder.           *)
(***************************************************************************)
\* the elapsed times of SpecTick: 0.5 s and 1 s, whose sums are exact in f64
TickElapsed == {F64FromRatio(1, 2), F64FromNat(1)}

RECURSIVE CursorSpend(_)
CursorSpend(count) ==
    IF count = 0 THEN 0 ELSE current_cost("cursor", count - 1) + CursorSpend(count - 1)

\* the state after earning and spending exactly the price of `count` Cultists
CursorState(count) ==
    [NewGameState EXCEPT !.lifetime_points = CursorSpend(count),
                         !.buildings["cursor"] = count]

InitTick ==
    /\ \E count \in 0..MaxCursors : gs = CursorState(count)
    /\ order \in IterOrders
    /\ file = NoFile
    /\ running = TRUE
    /\ lock = "none"
    /\ rlock = "none"
    /\ pc = [t \in Threads |-> IF t = "tick" THEN "tick" ELSE "unborn"]
    /\ pending = [t \in Threads |-> NewGameState]
    /\ input = [t \in Threads |-> NoInput]
    /\ last = NoLast
    /\ cnt = ZeroCnt

TickStep ==
    /\ pc["tick"] = "tick"
    /\ cnt.ticks < MaxSplit
    /\ \E elapsed \in TickElapsed :
          /\ gs' = production_tick(gs, order, elapsed)
          /\ cnt' = [cnt EXCEPT
                        !.ticks = @ + 1,
                        !.tick_added = @ + (gs'.points - gs.points),
                        !.elapsed_total = F64Add(@, elapsed)]
    /\ last' = [op |-> "tick", arg |-> "none", ret |-> TRUE]
    /\ UNCHANGED <<order, file, pc>>
    /\ SeqFrame

NextTick == TickStep

SpecTick == InitTick /\ [][NextTick]_vars

(***************************************************************************)
(* SpecLoad: load_game alone, on save files put together by hand from      *)
(* well-formed and malformed records.                                      *)
(***************************************************************************)
\* the records of the files: good has one well-formed record for each kind
\* of fact, bad has a building record with an unknown key, an upgrade
\* record with an index out of range, records with too few fields, a
\* record with an unknown tag, and records with a field that does not parse
LoadRecords ==
    [good |->
        { POINTS_TAG \o <<":", "5">>,
          LIFETIME_TAG \o <<":", "7">>,
          CLICK_POWER_TAG \o <<":", "3">>,
          BUILDING_TAG \o <<":">> \o CURSOR_TXT \o <<":", "2", ":", "0", ".", "1">>,
          UPGRADE_TAG \o <<":", "0", ":">> \o TRUE_TXT },
     bad |->
        { BUILDING_TAG \o <<":", "x", ":", "5", ":", "0", ".", "1">>,
          UPGRADE_TAG \o <<":", "9", "9", ":">> \o TRUE_TXT,
          POINTS_TAG,
          BUILDING_TAG \o <<":">> \o CURSOR_TXT \o <<":", "4">>,
          <<"x", ":", "9">>,
          LIFETIME_TAG \o <<":", "-", "1">>,
          BUILDING_TAG \o <<":">> \o CURSOR_TXT \o <<":", "4", ":", "x">>,
          UPGRADE_TAG \o <<":", "1", ":", "1">> }]

\* a new game and a save file of at most MaxLines records
InitLoad ==
    /\ gs = NewGameState
    /\ order = <<"cursor", "grandma", "farm", "mine", "temple", "portal">>
    /\ \E n \in 0..MaxLines :
          \E lines \in [1..n -> LoadRecords.good \cup LoadRecords.bad] :
             file = FileOf(lines)
    /\ running = TRUE
    /\ lock = "none"
    /\ rlock = "none"
    /\ pc = [t \in Threads |-> IF t = "main" THEN "load" ELSE "unborn"]
    /\ pending = [t \in Threads |-> NewGameState]
    /\ input = [t \in Threads |-> NoInput]
    /\ last = NoLast
    /\ cnt = ZeroCnt

\* lines 402-405: the startup load
LoadFile ==
    /\ pc["main"] = "load"
    /\ gs' = load_game(gs, file)
    /\ pc' = [pc EXCEPT !["main"] = "loaded"]
    /\ UNCHANGED <<order, file, running, lock, rlock, pending, input, last, cnt>>

SpecLoad == InitLoad /\ [][LoadFile]_vars

(***************************************************************************)
(* SpecScenario: a new game with no save file, played with the click key,  *)
(* production ticks and attempts to buy the Cultist (key "cursor").        *)
(***************************************************************************)
InitScenario ==
    /\ gs = NewGameState
    /\ order = <<"cursor", "grandma", "farm", "mine", "temple", "portal">>
    /\ file = NoFile
    /\ running = TRUE
    /\ lock = "none"
    /\ rlock = "none"
    /\ pc = [t \in Threads |-> IF t = "main" THEN "scenario" ELSE "unborn"]
    /\ pending = [t \in Threads |-> NewGameState]
    /\ input = [t \in Threads |-> NoInput]
    /\ last = NoLast
    /\ cnt = ZeroCnt

\* one command under the lock: a click (lines 481-483 and 239-257), a
\* production tick (lines 424-440) or buy_building("cursor") (lines 276-286);
\* cnt.keys counts the clicks, cnt.ops the purchase attempts
ScenarioCommand ==
    /\ pc["main"] = "scenario"
    /\ \/ /\ cnt.keys < MaxClicks
          /\ gs' = click(gs)
          /\ last' = [op |-> "click", arg |-> "none", ret |-> TRUE]
          /\ cnt' = [cnt EXCEPT !.keys = @ + 1]
       \/ /\ cnt.ticks < MaxTicks
          /\ \E elapsed \in ElapsedChoices :
                gs' = production_tick(gs, order, elapsed)
          /\ last' = [op |-> "tick", arg |-> "none", ret |-> TRUE]
          /\ cnt' = [cnt EXCEPT !.ticks = @ + 1]
       \/ /\ cnt.ops < MaxOps
          /\ gs' = buy_building(gs, "cursor")[1]
          /\ last' = [op |-> "buy_building", arg |-> "cursor",
                      ret |-> buy_building(gs, "cursor")[2]]
          /\ cnt' = [cnt EXCEPT !.ops = @ + 1]
    /\ UNCHANGED <<order, file, pc>>
    /\ SeqFrame

SpecScenario == InitScenario /\ [][ScenarioCommand]_vars

(***************************************************************************)
(* SpecBands: the two progression functions on pairs of lifetime_points    *)
(* values a <= b taken around every bound of their match arms.  gs holds   *)
(* a, pending["main"] holds b.                                             *)
(***************************************************************************)
InitBands ==
    /\ \E a, b \in {0, 1, 500, 2000000000}
                   \cup UNION { {t - 1, t, t + 1} :
                                t \in {1000, 10000, 100000, 1000000, 10000000,
                                       100000000, 1000000000} } :
          /\ a <= b
          /\ gs = [NewGameState EXCEPT !.lifetime_points = a]
          /\ pending = [t \in Threads |->
                           IF t = "main"
                           THEN [NewGameState EXCEPT !.lifetime_points = b]
                           ELSE NewGameState]
    /\ order = <<"cursor", "grandma", "farm", "mine", "temple", "portal">>
    /\ file = NoFile
    /\ running = TRUE
    /\ lock = "none"
    /\ rlock = "none"
    /\ pc = [t \in Threads |-> IF t = "main" THEN "bands" ELSE "unborn"]
    /\ input = [t \in Threads |-> NoInput]
    /\ last = NoLast
    /\ cnt = ZeroCnt

\* check_click_power_upgrade (lines 259-274) on both states, and the
\* domination status of both as line 623 draws it
Progression ==
    /\ pc["main"] = "bands"
    /\ gs' = check_click_power_upgrade(gs)
    /\ pending' = [pending EXCEPT !["main"] = check_click_power_upgrade(@)]
    /\ last' = [op |-> "status",
                arg |-> get_domination_status(gs.lifetime_points),
                ret |-> get_domination_status(pending["main"].lifetime_points)]
    /\ pc' = [pc EXCEPT !["main"] = "shown"]
    /\ UNCHANGED <<order, file, running, lock, rlock, input, cnt>>

SpecBands == InitBands /\ [][Progression]_vars

(***************************************************************************)
(* SpecKeys: the key handler of the foreground loop alone, one key event   *)
(* after another, with production ticks between them.                      *)
(***************************************************************************)
\* the foreground loop starts from a new game, or from the game loaded from
\* the complete save of an earlier session
InitKeys ==
    /\ gs \in { load_game(NewGameState, f) : f \in InitFiles }
    /\ order \in IterOrders
    /\ file = NoFile
    /\ running = TRUE
    /\ lock = "none"
    /\ rlock = "none"
    /\ pc = [t \in Threads |-> IF t = "main" THEN "keys" ELSE "unborn"]
    /\ pending = [t \in Threads |-> NewGameState]
    /\ input = [t \in Threads |-> NoInput]
    /\ last = NoLast
    /\ cnt = ZeroCnt

\* a key handler whose Down arm does not clamp
KeyPressUnclamped ==
    /\ pc["main"] = "keys"
    /\ \E key \in KeyEvents :
          /\ key \in {".", "Enter"} => cnt.ops < MaxOps
          /\ gs' = IF key = "Down"
                   THEN [gs EXCEPT !.selected_index = @ + 1]
                   ELSE handle_key(gs, order, key)
          /\ last' = [op |-> "key", arg |-> key, ret |-> TRUE]
          /\ cnt' = [cnt EXCEPT !.ops = IF key \in {".", "Enter"} THEN @ + 1 ELSE @]
    /\ UNCHANGED <<order, file, pc>>
    /\ SeqFrame

\* a key handler whose menu keys keep the selection
KeyPressKeepIndex ==
    /\ pc["main"] = "keys"
    /\ \E key \in KeyEvents :
          /\ key \in {".", "Enter"} => cnt.ops < MaxOps
          /\ gs' = IF key \in {"1", "2", "3"}
                   THEN [handle_key(gs, order, key) EXCEPT
                            !.selected_index = gs.selected_index]
                   ELSE handle_key(gs, order, key)
          /\ last' = [op |-> "key", arg |-> key, ret |-> gs' # gs]
          /\ cnt' = [cnt EXCEPT !.ops = IF key \in {".", "Enter"} THEN @ + 1 ELSE @]
    /\ UNCHANGED <<order, file, pc>>
    /\ SeqFrame

\* lines 477-556: one key event handled under the lock; last.ret tells
\* whether the key changed the state.  SpecKeys bounds the number of the
\* keys that earn or spend points ('.' and Enter) and leaves the menu and
\* selection keys free
KeyPress ==
    /\ pc["main"] = "keys"
    /\ \E key \in KeyEvents :
          /\ key \in {".", "Enter"} => cnt.ops < MaxOps
          /\ gs' = handle_key(gs, order, key)
          /\ last' = [op |-> "key", arg |-> key, ret |-> gs' # gs]
          /\ cnt' = [cnt EXCEPT !.ops = IF key \in {".", "Enter"} THEN @ + 1 ELSE @]
    /\ UNCHANGED <<order, file, pc>>
    /\ SeqFrame

\* lines 424-440: one accrual of the tick thread between two key events
KeysTick ==
    /\ pc["main"] = "keys"
    /\ cnt.ticks < MaxTicks
    /\ \E elapsed \in ElapsedChoices :
          gs' = production_tick(gs, order, elapsed)
    /\ last' = [op |-> "tick", arg |-> "none", ret |-> TRUE]
    /\ cnt' = [cnt EXCEPT !.ticks = @ + 1]
    /\ UNCHANGED <<order, file, pc>>
    /\ SeqFrame

SpecKeys == InitKeys /\ [][KeyPress \/ KeysTick]_vars

(***************************************************************************)
(* SpecWide: play at the top of the u64 range.  The game was loaded from a *)
(* save file whose points, lifetime and Dimensional Portal count are large *)
(* u64 values (parse::<u64> takes every one of them); here these three     *)
(* fields of gs are wide integers.  input["main"].key holds the build:     *)
(* with overflow checks (debug) an overflowing += panics, without          *)
(* (release) it wraps.                                                     *)
(***************************************************************************)
\* lines 204-237 with only Dimensional Portals owned and no upgrade bought
WideRate(state) ==
    F64Mul(Buildings["portal"].base_production, F64Round(state.buildings["portal"], 0))

\* lines 261-269 on a wide lifetime_points
WideBand(lifetime_points) ==
    IF BigCmp(lifetime_points, BigFromNat(100000000)) >= 0
    THEN 100
    ELSE ClickPowerBand(BigToNat(lifetime_points))

\* a += b on u64, as <<done, value>>: where the sum passes u64::MAX the build
\* with overflow checks panics (done is FALSE), the other stores the sum
\* modulo 2^64
U64AddAssign(build, a, b) ==
    LET sum == BigAdd(a, b)
    IN  IF BigCmp(sum, U64Max) = 1
        THEN (IF build = "debug" THEN <<FALSE, a>> ELSE <<TRUE, BigLowBits(sum, 64)>>)
        ELSE <<TRUE, sum>>

\* lines 252-253 and 438-439: points += n, then lifetime_points += n, as
\* <<state, done>>; the first panic ends the thread with the earlier writes
\* done
AddPoints(build, state, n) ==
    LET p == U64AddAssign(build, state.points, n)
        l == U64AddAssign(build, state.lifetime_points, n)
    IN  IF ~p[1] THEN <<state, FALSE>>
        ELSE IF ~l[1] THEN <<[state EXCEPT !.points = p[2]], FALSE>>
        ELSE <<[state EXCEPT !.points = p[2], !.lifetime_points = l[2]], TRUE>>

\* the points and lifetime records hold 0, u64::MAX - 1 or u64::MAX, the
\* portal record a count 10^n (all below u64::MAX) or u64::MAX
InitWide ==
    /\ \E v \in {<<>>, BigSub(U64Max, <<1>>), U64Max},
          c \in {BigPow(<<10>>, n) : n \in 0..MaxDigits} \cup {U64Max} :
          gs = [NewGameState EXCEPT !.points = v, !.lifetime_points = v,
                                    !.click_power = WideBand(v),
                                    !.buildings["portal"] = c]
    /\ order \in IterOrders
    /\ file = NoFile
    /\ running = TRUE
    /\ lock = "none"
    /\ rlock = "none"
    /\ pc = [t \in Threads |-> IF t = "save" THEN "unborn" ELSE "wide"]
    /\ pending = [t \in Threads |-> NewGameState]
    /\ \E build \in {"debug", "release"} :
          input = [t \in Threads |-> [NoInput EXCEPT !.key = build]]
    /\ last = NoLast
    /\ cnt = ZeroCnt

\* lines 424-440 on the wide fields
TickWide ==
    /\ pc["tick"] = "wide" /\ pc["main"] = "wide"
    /\ cnt.ops < MaxOps
    /\ \E elapsed \in ElapsedChoices :
          LET a == accrual(gs.production_remainder, WideRate(gs), elapsed)
              r == AddPoints(input["tick"].key,
                             [gs EXCEPT !.production_remainder = a.remainder],
                             a.points_to_add)
          IN  /\ gs' = r[1]
              /\ pc' = [pc EXCEPT !["tick"] = IF r[2] THEN "wide" ELSE "panicked"]
              /\ Step("tick", "none", r[2])
    /\ UNCHANGED <<order, file>>
    /\ SeqFrame

\* lines 239-257 on the wide fields
ClickWide ==
    /\ pc["main"] = "wide" /\ pc["tick"] = "wide"
    /\ cnt.ops < MaxOps
    /\ LET r == AddPoints(input["main"].key, gs, BigFromNat(click_points(gs)))
           b == WideBand(r[1].lifetime_points)
       IN  /\ gs' = IF r[2] /\ b > r[1].click_power
                    THEN [r[1] EXCEPT !.click_power = b] ELSE r[1]
           /\ pc' = [pc EXCEPT !["main"] = IF r[2] THEN "wide" ELSE "panicked"]
           /\ Step("click", "none", r[2])
    /\ UNCHANGED <<order, file>>
    /\ SeqFrame

\* lines 276-286 and 53-57 for the Dimensional Portal on the wide fields.
\* Below 20 portals the cost is computed as current_cost computes it; from
\* 1000 portals on base_cost * 1.15^count is above 2^64 (or powf returns
\* infinity) and the cast to u64 gives u64::MAX; purchases at the counts in
\* between are left out
BuyWide ==
    /\ pc["main"] = "wide" /\ pc["tick"] = "wide"
    /\ cnt.ops < MaxOps
    /\ \/ BigCmp(gs.buildings["portal"], BigFromNat(20)) = 0 - 1
       \/ BigCmp(gs.buildings["portal"], BigFromNat(1000)) >= 0
    /\ LET count == gs.buildings["portal"]
           cost  == IF count = <<>> THEN BigFromNat(Buildings["portal"].base_cost)
                    ELSE IF BigCmp(count, BigFromNat(1000)) >= 0 THEN U64Max
                    ELSE F64ToU64(F64Mul(F64FromNat(Buildings["portal"].base_cost),
                                         F64Powf(Buildings["portal"].cost_multiplier,
                                                 BigToNat(count))))
           c     == U64AddAssign(input["main"].key, count, <<1>>)
       IN  IF BigCmp(gs.points, cost) >= 0
           THEN /\ gs' = [gs EXCEPT !.points = BigSub(@, cost),
                                    !.buildings["portal"] = c[2]]
                /\ pc' = [pc EXCEPT !["main"] = IF c[1] THEN "wide" ELSE "panicked"]
                /\ Step("buy_building", "portal", c[1])
           ELSE /\ Step("buy_building", "portal", FALSE)
                /\ UNCHANGED <<gs, pc>>
    /\ UNCHANGED <<order, file>>
    /\ SeqFrame

SpecWide == InitWide /\ [][TickWide \/ ClickWide \/ BuyWide]_vars

(***************************************************************************)
(* SpecTies: the Enter key on a game loaded from a save file in which the  *)
(* Temple of Dagon and the Dimensional Portal may both be owned 1000       *)
(* times, so that both costs are u64::MAX.  points is a wide integer (0 or *)
(* u64::MAX); the menu and the selection are where the menu and arrow keys *)
(* left them.                                                              *)
(***************************************************************************)
InitTies ==
    /\ \E p \in {<<>>, U64Max}, t, d \in {0, 1000}, m \in Menus :
          \E i \in 0..(IF m = "Buildings" THEN Cardinality(Keys) - 1
                       ELSE IF m = "Upgrades" THEN NumUpgrades - 1 ELSE 0) :
             gs = [NewGameState EXCEPT !.points = p, !.lifetime_points = p,
                                       !.click_power = WideBand(p),
                                       !.buildings["temple"] = t,
                                       !.buildings["portal"] = d,
                                       !.current_menu = m,
                                       !.selected_index = i]
    /\ order \in IterOrders
    /\ file = NoFile
    /\ running = TRUE
    /\ lock = "none"
    /\ rlock = "none"
    /\ pc = [t \in Threads |-> IF t = "main" THEN "ties" ELSE "unborn"]
    /\ pending = [t \in Threads |-> NewGameState]
    /\ input = [t \in Threads |-> NoInput]
    /\ last = NoLast
    /\ cnt = ZeroCnt

\* lines 529-553 with buy_building (276-286) and buy_upgrade (288-298) on
\* the wide points.  The cost of a building owned 1 to 19 times is computed
\* as current_cost computes it; owned 1000 times or more base_cost *
\* 1.15^count is above 2^64 and the cast gives u64::MAX.  sort_by is stable:
\* a building comes after the cheaper ones and after those of equal cost
\* that the HashMap yields before it
EnterTies ==
    /\ pc["main"] = "ties"
    /\ cnt.ops < MaxOps
    /\ \/ /\ gs.current_menu = "Buildings"
          /\ \E cost \in
                  { [k \in Keys |->
                       IF gs.buildings[k] = 0 THEN BigFromNat(Buildings[k].base_cost)
                       ELSE IF gs.buildings[k] >= 1000 THEN U64Max
                       ELSE F64ToU64(F64Mul(F64FromNat(Buildings[k].base_cost),
                                            F64Powf(Buildings[k].cost_multiplier,
                                                    gs.buildings[k])))] } :
                \E key \in Keys :
                   /\ Cardinality(
                         {j \in Keys :
                            \/ BigCmp(cost[j], cost[key]) = 0 - 1
                            \/ /\ cost[j] = cost[key]
                               /\ \E x, y \in 1..Len(order) :
                                     x < y /\ order[x] = j /\ order[y] = key})
                         = gs.selected_index
                   /\ gs' = IF BigCmp(gs.points, cost[key]) >= 0
                            THEN [gs EXCEPT !.points = BigSub(@, cost[key]),
                                            !.buildings[key] = @ + 1]
                            ELSE gs
       \/ /\ gs.current_menu = "Upgrades"
          /\ \E index \in {gs.selected_index}, points \in {gs.points} :
                gs' = IF /\ ~gs.upgrades[index + 1]
                         /\ BigCmp(points, BigFromNat(Upgrades[index + 1].cost)) >= 0
                      THEN [gs EXCEPT
                               !.points = BigSub(@, BigFromNat(Upgrades[index + 1].cost)),
                               !.upgrades[index + 1] = TRUE]
                      ELSE gs
       \/ /\ gs.current_menu = "Main"
          /\ gs' = gs
    /\ Step("key", "Enter", gs' # gs)
    /\ UNCHANGED <<order, file, pc>>
    /\ SeqFrame

SpecTies == InitTies /\ [][EnterTies]_vars

(***************************************************************************)
(* Spec: the process of main().  The foreground loop, the tick thread and  *)
(* the auto-save thread interleave step by step; a command under the       *)
(* game-state mutex takes two steps: it locks and reads (computing the     *)
(* state it will leave), then writes and unlocks.                          *)
(***************************************************************************)
\* Mutex::lock returns only when nobody holds the mutex
\* a mutex that never excludes anyone
LockFreeAlways == TRUE

LockFree == lock = "none"
RLockFree == rlock = "none"

\* the process lives until main returns
Exited == pc["main"] \in {"done", "failed"}

ProcessOrder == <<"portal", "farm", "grandma", "temple", "cursor", "mine">>

\* the keys the process model presses, besides save and quit
ProcessKeys == {".", "2", "Enter"}

\* the outcomes of a save the process model tries: nothing touched, an
\* error after the first line, success
SaveOutcomes == {0 - 1, SaveLineCount}

Init ==
    /\ gs = NewGameState
    /\ order = ProcessOrder
    /\ file \in InitFiles
    /\ running = TRUE
    /\ lock = "none"
    /\ rlock = "none"
    /\ pc = [t \in Threads |-> IF t = "main" THEN "load" ELSE "unborn"]
    /\ pending = [t \in Threads |-> NewGameState]
    /\ input = [t \in Threads |-> NoInput]
    /\ last = NoLast
    /\ cnt = ZeroCnt

\* lines 400-457: the startup load under the lock, then the two spawns
MainLoad ==
    /\ pc["main"] = "load"
    /\ gs' = load_game(gs, file)
    /\ pc' = [main |-> "loop", tick |-> "check", save |-> "check"]
    /\ cnt' = [cnt EXCEPT !.base_points = gs'.points]
    /\ UNCHANGED <<order, file, running, lock, rlock, pending, input, last>>

\* line 462: the loop locks the state to draw it
MainLockDraw ==
    /\ pc["main"] = "loop"
    /\ LockFree
    /\ lock' = "main"
    /\ pc' = [pc EXCEPT !["main"] = "draw"]
    /\ UNCHANGED <<gs, order, file, running, rlock, pending, input, last, cnt>>

\* lines 465-472: the menu is drawn to the terminal, then the guard dropped;
\* a failed draw returns the error from main
MainDraw ==
    /\ pc["main"] = "draw"
    /\ lock' = "none"
    /\ \E ok \in BOOLEAN :
          pc' = [pc EXCEPT !["main"] = IF ok THEN "poll" ELSE "failed"]
    /\ UNCHANGED <<gs, order, file, running, rlock, pending, input, last, cnt>>

\* lines 475-476: event::poll with its 100 ms timeout, then event::read
MainPoll ==
    /\ pc["main"] = "poll"
    /\ \/ /\ pc' = [pc EXCEPT !["main"] = "loop"]
          /\ UNCHANGED input
       \/ /\ pc' = [pc EXCEPT !["main"] = "failed"]
          /\ UNCHANGED input
       \/ /\ \E key \in ProcessKeys \cup {"s"} :
                /\ cnt.keys < MaxKeys
                /\ input' = [input EXCEPT !["main"].key = key]
          /\ pc' = [pc EXCEPT !["main"] = "key"]
       \/ /\ input' = [input EXCEPT !["main"].key = "quit"]
          /\ pc' = [pc EXCEPT !["main"] = "key"]
    /\ UNCHANGED <<gs, order, file, running, lock, rlock, pending, last, cnt>>

\* line 477 and the reads of the matched arm
MainKeyLock ==
    /\ pc["main"] = "key"
    /\ LockFree
    /\ lock' = "main"
    /\ pending' = [pending EXCEPT !["main"] = handle_key(gs, order, input["main"].key)]
    /\ input' = [input EXCEPT !["main"].seen = gs]
    /\ pc' = [pc EXCEPT !["main"] = "apply"]
    /\ UNCHANGED <<gs, order, file, running, rlock, last, cnt>>

\* lines 479-556: the writes of the matched arm, then the guard is dropped
MainApply ==
    /\ pc["main"] = "apply"
    /\ lock' = "none"
    /\ pending' = [pending EXCEPT !["main"] = NewGameState]
    /\ input' = [input EXCEPT !["main"] = NoInput]
    /\ \/ /\ input["main"].key = "quit"
          /\ pc' = [pc EXCEPT !["main"] = "stop_lock"]
          /\ cnt' = [cnt EXCEPT !.quit = TRUE]
          /\ UNCHANGED <<gs, file>>
       \/ /\ input["main"].key = "s"
          /\ \E written \in SaveOutcomes :
                file' = save_game_steps(input["main"].seen, gs, order, file, written)
          /\ pc' = [pc EXCEPT !["main"] = "loop"]
          /\ cnt' = [cnt EXCEPT !.keys = @ + 1]
          /\ UNCHANGED gs
       \/ /\ input["main"].key \in KeyEvents
          /\ gs' = pending["main"]
          /\ pc' = [pc EXCEPT !["main"] = "loop"]
          /\ cnt' = [cnt EXCEPT
                        !.keys = @ + 1,
                        !.sum_deltas =
                            @ + pending["main"].points - input["main"].seen.points]
          /\ UNCHANGED file
    /\ UNCHANGED <<order, running, rlock, last>>

\* line 562: running.lock()
MainStopLock ==
    /\ pc["main"] = "stop_lock"
    /\ RLockFree
    /\ rlock' = "main"
    /\ pc' = [pc EXCEPT !["main"] = "stop"]
    /\ UNCHANGED <<gs, order, file, running, lock, pending, input, last, cnt>>

\* line 562: the flag is cleared and the guard dropped
MainStop ==
    /\ pc["main"] = "stop"
    /\ running' = FALSE
    /\ rlock' = "none"
    /\ pc' = [pc EXCEPT !["main"] = "final_lock"]
    /\ UNCHANGED <<gs, order, file, lock, pending, input, last, cnt>>

\* line 566
MainFinalLock ==
    /\ pc["main"] = "final_lock"
    /\ LockFree
    /\ lock' = "main"
    /\ input' = [input EXCEPT !["main"].seen = gs]
    /\ pc' = [pc EXCEPT !["main"] = "final_save"]
    /\ UNCHANGED <<gs, order, file, running, rlock, pending, last, cnt>>

\* main's shutdown without its save
MainFinalSkip ==
    /\ pc["main"] = "final_save"
    /\ lock' = "none"
    /\ input' = [input EXCEPT !["main"] = NoInput]
    /\ pc' = [pc EXCEPT !["main"] = "cleanup"]
    /\ UNCHANGED <<gs, order, file, running, rlock, pending, last, cnt>>

\* lines 567-568: the save before exit, then the guard dropped
MainFinalSave ==
    /\ pc["main"] = "final_save"
    /\ \E written \in SaveOutcomes :
          file' = save_game_steps(input["main"].seen, gs, order, file, written)
    /\ lock' = "none"
    /\ input' = [input EXCEPT !["main"] = NoInput]
    /\ cnt' = [cnt EXCEPT !.final_saves = @ + 1]
    /\ pc' = [pc EXCEPT !["main"] = "cleanup"]
    /\ UNCHANGED <<gs, order, running, rlock, pending, last>>

\* lines 570-577: the terminal is restored and main returns
MainCleanup ==
    /\ pc["main"] = "cleanup"
    /\ pc' = [pc EXCEPT !["main"] = "done"]
    /\ UNCHANGED <<gs, order, file, running, lock, rlock, pending, input, last, cnt>>

\* lines 417 and 450: running.lock() in the loop condition of thread t
CheckLock(t) ==
    /\ ~Exited
    /\ pc[t] = "check"
    /\ RLockFree
    /\ rlock' = t
    /\ pc' = [pc EXCEPT ![t] = "read"]
    /\ UNCHANGED <<gs, order, file, running, lock, pending, input, last, cnt>>

\* a loop condition that never ends the loop
AfterReadForever(flag) == "sleep"

\* the pc after the loop condition of a thread has read the flag
AfterRead(flag) == IF flag THEN "sleep" ELSE "done"

\* a loop condition whose guard lives on into the loop body
CheckReadKeepGuard(t) ==
    /\ ~Exited
    /\ pc[t] = "read"
    /\ pc' = [pc EXCEPT ![t] = AfterRead(running)]
    /\ UNCHANGED <<gs, order, file, running, lock, rlock, pending, input, last, cnt>>

\* lines 417 and 450: the flag is read, the guard dropped, the loop entered or left
CheckRead(t) ==
    /\ ~Exited
    /\ pc[t] = "read"
    /\ rlock' = "none"
    /\ pc' = [pc EXCEPT ![t] = AfterRead(running)]
    /\ UNCHANGED <<gs, order, file, running, lock, pending, input, last, cnt>>

\* lines 418-422: the tick thread sleeps 100 ms and measures the elapsed time
TickSleep ==
    /\ ~Exited
    /\ pc["tick"] = "sleep"
    /\ cnt.ticks < MaxTicks \/ ~running
    /\ \E elapsed \in ElapsedChoices :
          input' = [input EXCEPT !["tick"].elapsed = elapsed]
    /\ pc' = [pc EXCEPT !["tick"] = "lock"]
    /\ UNCHANGED <<gs, order, file, running, lock, rlock, pending, last, cnt>>

\* lines 424-431: the lock, and the reads of the accrual
TickLock ==
    /\ ~Exited
    /\ pc["tick"] = "lock"
    /\ LockFree
    /\ lock' = "tick"
    /\ pending' = [pending EXCEPT
                      !["tick"] = production_tick(gs, order, input["tick"].elapsed)]
    /\ input' = [input EXCEPT !["tick"].seen = gs]
    /\ pc' = [pc EXCEPT !["tick"] = "apply"]
    /\ UNCHANGED <<gs, order, file, running, rlock, last, cnt>>

\* lines 433-441: the writes of the accrual, then the guard is dropped
TickApply ==
    /\ ~Exited
    /\ pc["tick"] = "apply"
    /\ gs' = pending["tick"]
    /\ lock' = "none"
    /\ pending' = [pending EXCEPT !["tick"] = NewGameState]
    /\ input' = [input EXCEPT !["tick"] = NoInput]
    /\ cnt' = [cnt EXCEPT
                  !.ticks = @ + 1,
                  !.sum_deltas = @ + pending["tick"].points - input["tick"].seen.points,
                  !.ticks_after_stop = IF running THEN @ ELSE @ + 1]
    /\ pc' = [pc EXCEPT !["tick"] = "check"]
    /\ UNCHANGED <<order, file, running, rlock, last>>

\* line 451: the auto-save thread sleeps 30 s
SaveSleep ==
    /\ ~Exited
    /\ pc["save"] = "sleep"
    /\ cnt.saves < MaxSaves \/ ~running
    /\ pc' = [pc EXCEPT !["save"] = "lock"]
    /\ UNCHANGED <<gs, order, file, running, lock, rlock, pending, input, last, cnt>>

\* line 453
SaveLock ==
    /\ ~Exited
    /\ pc["save"] = "lock"
    /\ LockFree
    /\ lock' = "save"
    /\ input' = [input EXCEPT !["save"].seen = gs]
    /\ pc' = [pc EXCEPT !["save"] = "apply"]
    /\ UNCHANGED <<gs, order, file, running, rlock, pending, last, cnt>>

\* lines 454-455: the save, then the guard is dropped
SaveApply ==
    /\ ~Exited
    /\ pc["save"] = "apply"
    /\ \E written \in SaveOutcomes :
          file' = save_game_steps(input["save"].seen, gs, order, file, written)
    /\ lock' = "none"
    /\ input' = [input EXCEPT !["save"] = NoInput]
    /\ cnt' = [cnt EXCEPT !.saves = @ + 1,
                          !.saves_after_stop = IF running THEN @ ELSE @ + 1]
    /\ pc' = [pc EXCEPT !["save"] = "check"]
    /\ UNCHANGED <<gs, order, running, rlock, pending, last>>

MainNext ==
    \/ MainLoad
    \/ MainLockDraw
    \/ MainDraw
    \/ MainPoll
    \/ MainKeyLock
    \/ MainApply
    \/ MainStopLock
    \/ MainStop
    \/ MainFinalLock
    \/ MainFinalSave
    \/ MainCleanup

TickNext ==
    \/ CheckLock("tick")
    \/ CheckRead("tick")
    \/ TickSleep
    \/ TickLock
    \/ TickApply

SaveNext ==
    \/ CheckLock("save")
    \/ CheckRead("save")
    \/ SaveSleep
    \/ SaveLock
    \/ SaveApply

Next == MainNext \/ TickNext \/ SaveNext

Spec == Init /\ [][Next]_vars

\* the positions an activity can stand at
Positions ==
    {"unborn", "load", "loop", "draw", "poll", "key", "apply", "stop_lock",
     "stop", "final_lock", "final_save", "cleanup", "check", "read", "sleep",
     "lock", "done", "failed"}

\* activity t can take its next step: it lives, and the mutex it is about to
\* take is free
Ready(t) ==
    IF t = "main"
    THEN \/ pc[t] \in {"load", "draw", "poll", "apply", "stop", "final_save", "cleanup"}
         \/ pc[t] \in {"loop", "key", "final_lock"} /\ LockFree
         \/ pc[t] = "stop_lock" /\ RLockFree
    ELSE /\ ~Exited
         /\ \/ pc[t] \in {"read", "apply"}
            \/ pc[t] = "check" /\ RLockFree
            \/ pc[t] = "lock" /\ LockFree
            \/ /\ pc[t] = "sleep"
               /\ \/ ~running
                  \/ t = "tick" /\ cnt.ticks < MaxTicks
                  \/ t = "save" /\ cnt.saves < MaxSaves

\* a step of activity t, told by the positions alone: t moves on, and no
\* other activity moves unless t is main spawning the two threads
Turn(t) ==
    /\ Ready(t)
    /\ \E p \in Positions \ {pc[t]} :
          \/ pc' = [pc EXCEPT ![t] = p]
          \/ /\ pc[t] = "load"
             /\ pc' = [main |-> p, tick |-> "check", save |-> "check"]

\* the scheduler is fair to each activity: one that stays ready to take its
\* next step eventually takes it
FairSpec ==
    /\ Spec
    /\ \A t \in Threads : WF_pc(Turn(t))

\* the scheduler and the mutexes are fair to each activity: one that is
\* ready again and again to take its next step (the mutex it waits for is
\* free again and again) eventually takes it
StrongFairSpec ==
    /\ Spec
    /\ \A t \in Threads : SF_pc(Turn(t))

(***************************************************************************)
(* Properties                                                              *)
(***************************************************************************)
\* C2: points <= lifetime_points in every state reached after a mutation
\* (click, production tick, buy_building, buy_upgrade, load of a save file)
C2_PointsWithinLifetime == gs.points <= gs.lifetime_points

C4_RejectedPurchaseUnchanged ==
    [][ /\ (last'.op = "buy_building" /\ cnt'.ops = cnt.ops + 1) =>
            /\ ( (last'.arg \notin Keys
                  \/ gs.points < current_cost(last'.arg, gs.buildings[last'.arg]))
                 => ~last'.ret )
            /\ (~last'.ret => gs' = gs /\ file' = file)
        /\ (last'.op = "buy_upgrade" /\ cnt'.ops = cnt.ops + 1) =>
            /\ ( (last'.arg >= NumUpgrades
                  \/ gs.upgrades[last'.arg + 1]
                  \/ gs.points < Upgrades[last'.arg + 1].cost)
                 => ~last'.ret )
            /\ (~last'.ret => gs' = gs /\ file' = file) ]_vars

\* buy_upgrade refused for an upgrade already bought, with the points to
\* pay for it again
C4_Witness ==
    /\ last.op = "buy_upgrade"
    /\ ~last.ret
    /\ last.arg < NumUpgrades
    /\ gs.upgrades[last.arg + 1]
    /\ gs.points >= Upgrades[last.arg + 1].cost

\* C5: at a constant production rate, the ticks so far have added what one
\* tick of the same total duration adds from the same starting state
C5_SplitTicksEqualOneTick ==
    pc["tick"] = "tick" =>
        cnt.tick_added =
            production_tick(CursorState(gs.buildings["cursor"]), order,
                            cnt.elapsed_total).points

\* C6: after every operation that can raise lifetime_points, click_power is
\* at least the click-power band of the resulting lifetime_points
C6_ClickPowerAtBand == gs.click_power >= ClickPowerBand(gs.lifetime_points)

\* C8: loading the file a successful save writes reproduces points,
\* lifetime_points, every count and every purchased flag, yields a
\* click_power at least as large, and a production_remainder of 0
C8_RoundTrip ==
    LET saved  == save_game(gs, order, file, SaveLineCount)
        loaded == load_game(NewGameState, saved)
    IN  /\ loaded.points = gs.points
        /\ loaded.lifetime_points = gs.lifetime_points
        /\ loaded.buildings = gs.buildings
        /\ loaded.upgrades = gs.upgrades
        /\ loaded.click_power >= gs.click_power
        /\ loaded.production_remainder = F64Zero

\* the state a second run loaded from the complete save of the first, with
\* an upgrade bought and a building owned
C8_Witness ==
    /\ last.op = "load"
    /\ cnt.sessions = 2
    /\ file.exists /\ Len(file.lines) = SaveLineCount
    /\ gs.upgrades[1]
    /\ gs.buildings["grandma"] = 1
    /\ gs.points = 799

\* an activity is inside a command when it holds the game-state mutex
InCommand(t) ==
    \/ t = "main" /\ pc[t] \in {"draw", "apply", "final_save"}
    \/ t \in {"tick", "save"} /\ pc[t] = "apply"

\* C1: every command runs atomically under the game-state lock: at most one
\* activity is inside a command, the state a command read is still the state
\* when it writes, and whenever no command is running points equals its
\* value after the startup load plus the sum of the deltas the commands
\* computed one by one
C1_CommandsAtomic ==
    /\ \A t, u \in Threads : InCommand(t) /\ InCommand(u) => t = u
    /\ \A t \in Threads : InCommand(t) => lock = t
    /\ \A t \in {"main", "tick"} : pc[t] = "apply" => input[t].seen = gs
    /\ (lock = "none" /\ pc["main"] # "load") =>
           gs.points = cnt.base_points + cnt.sum_deltas

\* a click, a purchase and a production tick have all been applied
C1_Witness ==
    /\ lock = "none"
    /\ cnt.ticks = 1
    /\ cnt.keys = 2
    /\ gs.buildings["cursor"] = 1
    /\ cnt.sum_deltas = 0 - 14

\* C7: the foreground loop does not hold the game-state lock while it draws
\* to the terminal or waits for an input event
C7_NoLockAcrossIO == pc["main"] \in {"draw", "poll"} => lock # "main"

\* C9: after a quit command main leaves its loop, clears the running flag
\* and saves exactly once before the process exits
C9_QuitSavesOnce ==
    /\ cnt.final_saves <= 1
    /\ cnt.final_saves = 1 => (cnt.quit /\ ~running)
    /\ (cnt.quit /\ pc["main"] \in {"cleanup", "done", "failed"}) =>
           (cnt.final_saves = 1 /\ ~running)
    /\ (cnt.quit /\ pc["main"] \notin {"cleanup", "done"}) =>
           pc["main"] \in {"stop_lock", "stop", "final_lock", "final_save"}

\* the process has exited after a quit command
C9_Witness == cnt.quit /\ pc["main"] = "done" /\ cnt.final_saves = 1

Stopped(t) == pc[t] = "done" \/ Exited

\* C10: once running is false the tick thread and the auto-save thread each
\* run at most one more iteration, and under fair scheduling both stop
C10_CooperativeShutdown ==
    /\ [](cnt.ticks_after_stop <= 1 /\ cnt.saves_after_stop <= 1)
    /\ (~running ~> (Stopped("tick") /\ Stopped("save")))

\* both threads have left their loops by themselves, each after one more
\* iteration, while the process is still alive
C10_Witness ==
    /\ ~running
    /\ ~Exited
    /\ pc["tick"] = "done" /\ pc["save"] = "done"
    /\ cnt.ticks_after_stop = 1 /\ cnt.saves_after_stop = 1

\* the number of selectable items of a menu
ItemCount(menu) ==
    CASE menu = "Buildings" -> Cardinality(Keys)
      [] menu = "Upgrades" -> NumUpgrades
      [] OTHER -> 0

\* C11: selected_index is always a valid index of the active menu (0 in the
\* Main menu, below the number of buildings in Buildings, below the number
\* of upgrades in Upgrades), and Up and Down move it by one step, clamped at
\* 0 and at the last item
C11_SelectedIndexValid ==
    /\ [](IF gs.current_menu = "Main"
          THEN gs.selected_index = 0
          ELSE gs.selected_index \in 0..(ItemCount(gs.current_menu) - 1))
    /\ [][ last'.op = "key" =>
             /\ last'.arg = "Up" =>
                  /\ gs'.selected_index =
                       IF gs.selected_index = 0 THEN 0 ELSE gs.selected_index - 1
                  /\ gs'.current_menu = gs.current_menu
             /\ last'.arg = "Down" =>
                  /\ gs'.selected_index =
                       IF gs.selected_index + 1 < ItemCount(gs.current_menu)
                       THEN gs.selected_index + 1 ELSE gs.selected_index
                  /\ gs'.current_menu = gs.current_menu
             /\ last'.arg \in {".", "Enter", "other"} =>
                  /\ gs'.selected_index = gs.selected_index
                  /\ gs'.current_menu = gs.current_menu ]_vars

\* Down pressed on the last upgrade: the selection stays on it
C11_Witness ==
    /\ last.op = "key" /\ last.arg = "Down" /\ ~last.ret
    /\ gs.current_menu = "Upgrades"
    /\ gs.selected_index = NumUpgrades - 1

\* C12: an upgrade is bought at most once in a session: buy_upgrade on an
\* upgrade already purchased returns false and changes nothing, a successful
\* buy_upgrade turns the flag from false to true and deducts the cost once,
\* and no operation of the session turns a flag back to false
C12_UpgradeBoughtOnce ==
    [][ /\ (last'.op = "buy_upgrade" /\ cnt'.ops = cnt.ops + 1
            /\ last'.arg < NumUpgrades) =>
            LET i == last'.arg + 1
            IN  /\ gs.upgrades[i] => (~last'.ret /\ gs' = gs)
                /\ last'.ret =>
                      /\ ~gs.upgrades[i]
                      /\ gs'.upgrades[i]
                      /\ gs'.points = gs.points - Upgrades[i].cost
                      /\ \A j \in 1..NumUpgrades :
                            j # i => gs'.upgrades[j] = gs.upgrades[j]
        /\ cnt'.sessions = cnt.sessions =>
            \A j \in 1..NumUpgrades :
               /\ (gs.upgrades[j] /\ pc["main"] = "api") => gs'.upgrades[j]
               /\ (~gs.upgrades[j] /\ gs'.upgrades[j] /\ pc["main"] = "api") =>
                     (last'.op = "buy_upgrade" /\ last'.arg = j - 1 /\ last'.ret) ]_vars

\* the first upgrade bought, then asked for a second time in the same
\* session with 799 points left: refused
C12_Witness ==
    /\ last.op = "buy_upgrade" /\ last.arg = 0 /\ ~last.ret
    /\ cnt.ops = 2 /\ cnt.sessions = 1
    /\ gs.upgrades[1]
    /\ gs.points = 799

\* C13: production_remainder lies in [0, 1) in every state outside the
\* accrual
C13_RemainderInUnitInterval ==
    /\ F64Cmp(gs.production_remainder, F64Zero) >= 0
    /\ F64Cmp(gs.production_remainder, F64FromNat(1)) < 0

\* C14: every save is internally consistent.  While a save is being
\* written (by the auto-save thread, the 's' key or the final save) the
\* state it began with is still the state of the game, and every step that
\* changes the file leaves in it the records of that one state (or a prefix
\* of them where a write failed) and changes nothing of the game
C14_SaveOfOneState ==
    /\ [](/\ pc["save"] = "apply" => input["save"].seen = gs
          /\ pc["main"] = "final_save" => input["main"].seen = gs
          /\ (pc["main"] = "apply" /\ input["main"].key = "s") =>
                 input["main"].seen = gs)
    /\ [][file' # file =>
             /\ gs' = gs
             /\ \E written \in 0..SaveLineCount :
                   file' = save_game(gs, order, file, written)]_vars

\* the auto-save has the lock and its first records, a key was applied
\* before it began, and both the tick thread and the key handler wait at the
\* lock
C14_Witness ==
    /\ pc["save"] = "apply"
    /\ pc["tick"] = "lock"
    /\ pc["main"] = "key"
    /\ cnt.keys = 1
    /\ gs.points > cnt.base_points

\* C15: load tolerates malformed records one fact at a time.  After the
\* load of a file of well-formed and malformed records the state is the one
\* the file's well-formed records alone give (a file of malformed records
\* only leaves the new game as it was), and each well-formed record of the
\* file has been applied
C15_MalformedRecordIgnored ==
    pc["main"] = "loaded" =>
        LET WellFormed(line) == line \in LoadRecords.good
            Has(line) == \E i \in 1..Len(file.lines) : file.lines[i] = line
        IN  /\ gs = load_game(NewGameState, FileOf(SelectSeq(file.lines, WellFormed)))
            /\ (\A i \in 1..Len(file.lines) : ~WellFormed(file.lines[i])) =>
                   gs = NewGameState
            /\ Has(POINTS_TAG \o <<":", "5">>) => gs.points = 5
            /\ Has(LIFETIME_TAG \o <<":", "7">>) => gs.lifetime_points = 7
            /\ Has(CLICK_POWER_TAG \o <<":", "3">>) => gs.click_power = 3
            /\ gs.buildings["cursor"] =
                   IF Has(BUILDING_TAG \o <<":">> \o CURSOR_TXT
                          \o <<":", "2", ":", "0", ".", "1">>)
                   THEN 2 ELSE 0
            /\ \A k \in Keys \ {"cursor"} : gs.buildings[k] = 0
            /\ gs.upgrades[1] = Has(UPGRADE_TAG \o <<":", "0", ":">> \o TRUE_TXT)
            /\ \A i \in 2..NumUpgrades : ~gs.upgrades[i]

\* a file with a too-short record, then a well-formed building record, then
\* a building record with an unknown key has been loaded
C15_Witness ==
    /\ pc["main"] = "loaded"
    /\ file.lines = << POINTS_TAG,
                       BUILDING_TAG \o <<":">> \o CURSOR_TXT
                           \o <<":", "2", ":", "0", ".", "1">>,
                       BUILDING_TAG \o <<":", "x", ":", "5", ":", "0", ".", "1">> >>
    /\ gs.buildings["cursor"] = 2
    /\ gs.points = 0

\* C16: click_power never goes down within a session.  No load, click,
\* production tick, purchase or save of SpecSeq lowers it (the step that
\* starts a new process is the only one left out), and the load leaves it
\* at or above every click_power record of the file it read
C16_ClickPowerMonotone ==
    [][last'.op # "new" =>
          /\ gs'.click_power >= gs.click_power
          /\ last'.op = "load" =>
                \A i \in 1..Len(file.lines) :
                    LET parts == Split(file.lines[i], ":")
                    IN  (/\ Len(parts) >= 2
                         /\ parts[1] = CLICK_POWER_TAG
                         /\ parse_u64(parts[2]) # None) =>
                            gs'.click_power >= parse_u64(parts[2])[1]]_vars

\* the file edited by hand has been loaded: its click_power record 0 is
\* below the new game's 1, and the load ends at the power of the band of
\* lifetime 1000
C16_Witness ==
    /\ last.op = "load"
    /\ file.lines = << LIFETIME_TAG \o <<":", "1", "0", "0", "0">>,
                       CLICK_POWER_TAG \o <<":", "0">> >>
    /\ gs.lifetime_points = 1000
    /\ gs.click_power = 2

C18_CountsAndFlagsMonotone ==
    [][/\ BigCmp(gs'.buildings["portal"], gs.buildings["portal"]) >= 0
       /\ \A k \in Keys \ {"portal"} : gs'.buildings[k] >= gs.buildings[k]
       /\ \A i \in 1..NumUpgrades : gs.upgrades[i] => gs'.upgrades[i]]_vars

\* C19: from a new game every click adds exactly 1 to points and to
\* lifetime_points, with production ticks in between or not; the first
\* purchase of the Cultist (base cost 15, multiplier 1.15) is refused after
\* fewer than 15 clicks and accepted after 15 or more, and after exactly 15
\* it leaves points 0, one Cultist, lifetime_points 15 and a next cost of 17
C19_FifteenClicksBuyCultist ==
    [][/\ last'.op = "click" =>
             /\ gs'.points = gs.points + 1
             /\ gs'.lifetime_points = gs.lifetime_points + 1
       /\ (last'.op = "buy_building" /\ gs.buildings["cursor"] = 0) =>
             /\ last'.ret <=> cnt.keys >= 15
             /\ ~last'.ret => gs' = gs
             /\ (last'.ret /\ cnt.keys = 15) =>
                   /\ gs'.points = 0
                   /\ gs'.buildings["cursor"] = 1
                   /\ gs'.lifetime_points = 15
                   /\ current_cost("cursor", gs'.buildings["cursor"]) = 17]_vars

\* 15 clicks with a production tick among them, then the Cultist bought
C19_Witness ==
    /\ pc["main"] = "scenario"
    /\ cnt.keys = 15
    /\ cnt.ticks = 1
    /\ cnt.ops = 1
    /\ last.op = "buy_building"
    /\ last.ret
    /\ gs.points = 0
    /\ gs.lifetime_points = 15
    /\ gs.buildings["cursor"] = 1

\* C20: the click-power band and the domination tier of a are not above
\* those of b for a <= b, and between two consecutive values of
\* lifetime_points each of them changes exactly at 1000, 10000, 100000,
\* 1000000, 10000000 and 100000000
C20_BandsMonotoneAtThresholds ==
    pc["main"] = "shown" =>
        LET a == gs.lifetime_points
            b == pending["main"].lifetime_points
            Tiers == << "Local Cult (Town)", "Regional Influence (County)",
                        "National Presence (Country)",
                        "Continental Power (Continent)", "Global Reach (Earth)",
                        "Cosmic Influence (Solar System)",
                        "Galactic Dominion (Galaxy)",
                        "Universal Awakening (Cthulhu Rises!)" >>
            Tier(status) == CHOOSE i \in 1..Len(Tiers) : Tiers[i] = status
            AtBound == b \in {1000, 10000, 100000, 1000000, 10000000, 100000000}
        IN  /\ gs.click_power <= pending["main"].click_power
            /\ Tier(last.arg) <= Tier(last.ret)
            /\ b = a + 1 =>
                  /\ gs.click_power # pending["main"].click_power <=> AtBound
                  /\ last.arg # last.ret <=> AtBound

\* C21: Enter in the Buildings menu attempts to buy the building at position
\* selected_index of the buildings sorted by current cost, ties broken by
\* key (so the HashMap's iteration order does not matter); in the Upgrades
\* menu it attempts to buy the upgrade at selected_index; in the Main menu
\* it changes nothing.  An attempt buys if the points pay for it and changes
\* nothing else.
C21_EnterBuysSelected ==
    [][last'.op = "key" =>
          /\ gs.current_menu = "Main" => gs' = gs
          /\ gs.current_menu = "Buildings" =>
                \A cost \in
                    { [k \in Keys |->
                         IF gs.buildings[k] = 0 THEN BigFromNat(Buildings[k].base_cost)
                         ELSE IF gs.buildings[k] >= 1000 THEN U64Max
                         ELSE F64ToU64(F64Mul(F64FromNat(Buildings[k].base_cost),
                                              F64Powf(Buildings[k].cost_multiplier,
                                                      gs.buildings[k])))] },
                   ByKey \in {<<"cursor", "farm", "grandma", "mine", "portal", "temple">>} :
                   \A key \in Keys :
                      Cardinality(
                          {j \in Keys :
                             \/ BigCmp(cost[j], cost[key]) = 0 - 1
                             \/ /\ cost[j] = cost[key]
                                /\ \E x, y \in 1..Len(ByKey) :
                                      x < y /\ ByKey[x] = j /\ ByKey[y] = key})
                          = gs.selected_index
                      => gs' = IF BigCmp(gs.points, cost[key]) >= 0
                               THEN [gs EXCEPT !.points = BigSub(@, cost[key]),
                                               !.buildings[key] = @ + 1]
                               ELSE gs
          /\ gs.current_menu = "Upgrades" =>
                \A index \in {gs.selected_index} :
                   gs' = IF /\ ~gs.upgrades[index + 1]
                            /\ BigCmp(gs.points,
                                      BigFromNat(Upgrades[index + 1].cost)) >= 0
                         THEN [gs EXCEPT
                                  !.points = BigSub(@, BigFromNat(Upgrades[index + 1].cost)),
                                  !.upgrades[index + 1] = TRUE]
                         ELSE gs]_vars

\* C22: the menu starts at Main, and from any menu the keys '1', '2' and '3'
\* set current_menu to Main, Buildings and Upgrades and selected_index to 0,
\* leaving every other field of the game as it was
C22_SelectMenu ==
    /\ gs.current_menu = "Main" /\ gs.selected_index = 0
    /\ [][\A m \in Menus :
             (/\ last'.op = "key"
              /\ last'.arg = (CASE m = "Main" -> "1"
                                [] m = "Buildings" -> "2"
                                [] m = "Upgrades" -> "3")) =>
                 gs' = [gs EXCEPT !.current_menu = m, !.selected_index = 0]]_vars

\* the key '2' has just changed the state of a game in which points were
\* earned and a building bought: the Upgrades or Main menu was left, or a
\* selection below the first building was reset
C22_Witness ==
    /\ last.op = "key"
    /\ last.arg = "2"
    /\ last.ret
    /\ gs.current_menu = "Buildings"
    /\ gs.selected_index = 0
    /\ cnt.ops = MaxOps
    /\ \E k \in Keys : gs.buildings[k] > 0

C24_NoChangeAfterFinalSave ==
    [][cnt.final_saves = 1 =>
          /\ gs'.points = gs.points
          /\ gs'.lifetime_points = gs.lifetime_points
          /\ gs'.production_remainder = gs.production_remainder]_vars
====
